---- MODULE Spec2Model ----
(***************************************************************************)
(* Model of simple-erc20/host/src/main.rs: the command-line client that    *)
(* registers a token contract or proves and submits a transfer             *)
(* (get_contract, prove, send_tx_blob, send_tx_proof).                     *)
(*                                                                         *)
(* One invocation of the binary is one run of main().  Invocations are     *)
(* indexed by Procs; they share nothing but the ledger.  Every `.unwrap()` *)
(* and `.expect()` of the source is a panic that ends the invocation.      *)
(***************************************************************************)
EXTENDS Integers, Sequences, FiniteSets, TLC

\* ---------------------------------------------------------------- bounds
MaxAmount == 1
MaxSupply == 1
MaxOutLen == 2

\* ------------------------------------------------------------- universes
Procs == {1, 2}
Identities == {"alice", "bob"}
ContractNames == {"simple_token", "other_token"}
Hashes == {"h1", "h2"}
\* Bytes a guest can put in program_outputs: 'A' and the two bytes of U+00E9
\* (a lead byte and a continuation byte, each invalid on its own).
OutBytes == {65, 195, 169}

\* Option<T> and Result<T, E>
None == <<>>
Some(v) == <<v>>
Ok(v) == [ok |-> TRUE, val |-> v]
Err(e) == [ok |-> FALSE, err |-> e]

\* A formatted message (println!, bail!, expect, error Display): the format
\* string and the values interpolated into it.
Fmt(fmt, args) == [fmt |-> fmt, args |-> args]
Msg(fmt) == Fmt(fmt, <<>>)

RECURSIVE SeqsUpTo(_, _)
SeqsUpTo(S, n) ==
    IF n = 0 THEN {<<>>}
    ELSE LET shorter == SeqsUpTo(S, n - 1)
         IN shorter \cup {Append(s, x) : s \in {t \in shorter : Len(t) = n - 1}, x \in S}

\* ------------------------------------------------------------------ state
VARIABLES
    cli,            \* parsed command line of each invocation
    engine,         \* the journals the proving engine may produce
    pc,             \* position of each invocation in main()/prove()
    initial_state,  \* main: Option<Token>
    blobs,          \* main: Vec<Blob>
    inputs,         \* main: Option<ContractInput<Token>>
    binary,         \* prove: Option<guest binary>
    receipt,        \* prove: Option<Receipt>
    hyle_output,    \* prove: Option<HyleOutput>
    prove_result,   \* value returned by prove(): Option<Result<Receipt>>
    blob_tx_hash,   \* main: Option<TxHash>
    res,            \* main (Register): Option<Response>
    proof_tx_hash,  \* main (Transfer): Option<Response>
    stdout,         \* lines printed by each invocation
    panic,          \* Option<[line, msg]>: the panic that ended the invocation
    calls,          \* calls each invocation made to its collaborators
    ledger          \* the ledger service: contract states and accepted txs

vars == <<cli, engine, pc, initial_state, blobs, inputs, binary, receipt, hyle_output,
          prove_result, blob_tx_hash, res, proof_tx_hash, stdout, panic, calls,
          ledger>>

\* ------------------------------------------------ contract::Token (state)
\* The contract crate is used by main.rs only through Token::new, as_digest
\* and the conversion from the ledger's state digest.  A token state is its
\* total supply and a list of balances; its digest is a flat encoding of it.
\* Token::new(supply, owner): the whole supply belongs to the owner.
TokenNew(supply, owner) ==
    [total_supply |-> supply, balances |-> <<[holder |-> owner, amount |-> supply]>>]

\* Digestable::as_digest: flat encoding of the token state.
AsDigest(token) ==
    <<token.total_supply, Len(token.balances)>> \o
    [i \in 1..(2 * Len(token.balances)) |->
        IF i % 2 = 1 THEN token.balances[(i + 1) \div 2].holder
                     ELSE token.balances[i \div 2].amount]

\* From<StateDigest> for Token (`.state.into()`): parse of the flat encoding.
FromDigest(d) ==
    [total_supply |-> d[1],
     balances |-> [i \in 1..d[2] |-> [holder |-> d[2 * i + 1], amount |-> d[2 * i + 2]]]]

Faucet(contract_name) ==
    IF contract_name = "simple_token" THEN "faucet.simple_token" ELSE "faucet.other_token"

\* Committed states the ledger may hold for a contract.
Digests == {AsDigest(TokenNew(s, Faucet(c))) : s \in 0..MaxSupply, c \in ContractNames}

\* --------------------------------------------------- action encoding (blob)
\* bincode varint (standard config): values below 251 are one byte, values
\* below 2^16 are the marker 251 and two little-endian bytes.
VarInt(n) == IF n < 251 THEN <<n>> ELSE <<251, n % 256, (n \div 256) % 256>>

StrBytes(s) ==
    CASE s = "alice" -> <<97, 108, 105, 99, 101>>
      [] s = "bob"   -> <<98, 111, 98>>
      [] OTHER       -> <<>>

\* Transfer is the third variant of sdk::erc20::ERC20Action.
TransferVariant == 2

\* bincode::encode_to_vec(ERC20Action::Transfer { recipient, amount }, standard()):
\* variant index, length-prefixed recipient, amount.
EncodeAction(action) ==
    VarInt(TransferVariant) \o VarInt(Len(StrBytes(action.recipient))) \o
    StrBytes(action.recipient) \o VarInt(action.amount)

\* ----------------------------------------------------- journal / HyleOutput
\* The journal of a receipt is a byte string; the part of HyleOutput this
\* program reads is (success, program_outputs).
EncodeJournal(out) ==
    <<IF out.success THEN 1 ELSE 0, Len(out.program_outputs)>> \o out.program_outputs

\* receipt.journal.decode::<HyleOutput>()
DecodeJournal(j) ==
    IF Len(j) >= 2 /\ j[1] \in {0, 1} /\ j[2] = Len(j) - 2
    THEN Ok([success |-> (j[1] = 1), program_outputs |-> SubSeq(j, 3, Len(j))])
    ELSE Err(Msg("decode"))

HyleOutputs == [success : BOOLEAN, program_outputs : SeqsUpTo(OutBytes, MaxOutLen)]

\* Journals a proving engine may return: every well-formed one, and malformed
\* ones (empty, truncated, a wrong length, a success flag that is no boolean).
Journals ==
    {EncodeJournal(o) : o \in HyleOutputs} \cup {<<>>, <<0>>, <<1, 1>>, <<0, 0, 65>>, <<2, 0>>}

\* std::str::from_utf8: the code points of a byte string, or an error.
RECURSIVE Utf8Decode(_)
Utf8Decode(bs) ==
    LET IsCont(i) == i <= Len(bs) /\ bs[i] >= 128 /\ bs[i] <= 191
        Rest(k, cp) ==
            LET r == Utf8Decode(SubSeq(bs, k + 1, Len(bs)))
            IN IF r.ok THEN Ok(<<cp>> \o r.val) ELSE r
    IN IF bs = <<>> THEN Ok(<<>>)
       ELSE IF bs[1] < 128 THEN Rest(1, bs[1])
       ELSE IF bs[1] >= 194 /\ bs[1] <= 223 /\ IsCont(2)
            THEN Rest(2, (bs[1] - 192) * 64 + (bs[2] - 128))
       ELSE IF bs[1] >= 224 /\ bs[1] <= 239 /\ IsCont(2) /\ IsCont(3)
            THEN LET cp == (bs[1] - 224) * 4096 + (bs[2] - 128) * 64 + (bs[3] - 128)
                 IN IF cp >= 2048 /\ ~(cp >= 55296 /\ cp <= 57343)
                    THEN Rest(3, cp) ELSE Err(Msg("Utf8Error"))
       ELSE IF bs[1] >= 240 /\ bs[1] <= 244 /\ IsCont(2) /\ IsCont(3) /\ IsCont(4)
            THEN LET cp == (bs[1] - 240) * 262144 + (bs[2] - 128) * 4096
                           + (bs[3] - 128) * 64 + (bs[4] - 128)
                 IN IF cp >= 65536 /\ cp <= 1114111
                    THEN Rest(4, cp) ELSE Err(Msg("Utf8Error"))
       ELSE Err(Msg("Utf8Error"))

\* borsh::to_vec(&receipt)
EncodeReceipt(r) == <<r.journal, r.seal>>

\* ------------------------------------------------------------ collaborators
LedgerOps == {"get_contract", "send_tx_register_contract", "send_tx_blob", "send_tx_proof"}

\* HTTP responses whose body is read with `.text().await`.
Responses == {[text |-> Ok(h)] : h \in Hashes} \cup {[text |-> Err(Msg("body"))]}

Call(p, op, arg, ret) ==
    calls' = [calls EXCEPT ![p] = Append(@, [op |-> op, arg |-> arg, ret |-> ret])]

\* A panic (failed unwrap/expect) ends the invocation.
Panic(p, line, msg) ==
    /\ pc' = [pc EXCEPT ![p] = "panicked"]
    /\ panic' = [panic EXCEPT ![p] = Some([line |-> line, msg |-> msg])]

Goto(p, label) ==
    /\ pc' = [pc EXCEPT ![p] = label]
    /\ UNCHANGED panic

Println(p, line) == stdout' = [stdout EXCEPT ![p] = Append(@, line)]

locals == <<initial_state, blobs, inputs, binary, receipt, hyle_output,
            prove_result, blob_tx_hash, res, proof_tx_hash>>

\* ------------------------------------------------------------------- Init
Clis ==
    [command : {"Register"}, reproducible : BOOLEAN, contract_name : ContractNames,
     supply : 0..MaxSupply, from : {"alice"}, to : {"alice"}, amount : {0}]
    \cup
    [command : {"Transfer"}, reproducible : BOOLEAN, contract_name : ContractNames,
     supply : {0}, from : Identities, to : Identities, amount : 0..MaxAmount]

IdleCli ==
    [command |-> "Transfer", reproducible |-> FALSE, contract_name |-> "simple_token",
     supply |-> 0, from |-> "alice", to |-> "alice", amount |-> 0]

\* Ledger states at the start: the contracts the invocations name are
\* unregistered or hold a committed state; the others play no part.
LedgerStates(named) ==
    {st \in [ContractNames -> {None} \cup {Some(d) : d \in Digests}] :
        \A c \in ContractNames :
            /\ c \notin named => st[c] = None
            /\ st[c] # None => FromDigest(st[c][1]).balances[1].holder = Faucet(c)}

InitLocals ==
    /\ initial_state = [p \in Procs |-> None]
    /\ blobs = [p \in Procs |-> <<>>]
    /\ inputs = [p \in Procs |-> None]
    /\ binary = [p \in Procs |-> None]
    /\ receipt = [p \in Procs |-> None]
    /\ hyle_output = [p \in Procs |-> None]
    /\ prove_result = [p \in Procs |-> None]
    /\ blob_tx_hash = [p \in Procs |-> None]
    /\ res = [p \in Procs |-> None]
    /\ proof_tx_hash = [p \in Procs |-> None]
    /\ stdout = [p \in Procs |-> <<>>]
    /\ panic = [p \in Procs |-> None]
    /\ calls = [p \in Procs |-> <<>>]

\* One invocation of the binary; the ledger is in any state.
Init ==
    /\ \E c \in Clis : cli = [p \in Procs |-> IF p = 1 THEN c ELSE IdleCli]
    /\ engine = Journals
    /\ pc = [p \in Procs |-> IF p = 1 THEN "main" ELSE "idle"]
    /\ InitLocals
    /\ \E st \in LedgerStates({cli[1].contract_name}) :
          ledger = [state |-> st, register_txs |-> {}, blob_txs |-> {},
                    proof_txs |-> {}]

\* ------------------------------------------------------------------- main
\* lines 54-66: announce the mode, build the client, dispatch on the command.
Main(p) ==
    /\ pc[p] = "main"
    /\ Println(p, IF cli[p].reproducible
                  THEN Msg("Running with reproducible ELF binary.")
                  ELSE Msg("Running non-reproducibly"))
    /\ Goto(p, IF cli[p].command = "Register" THEN "register" ELSE "get_contract")
    /\ UNCHANGED <<cli, engine, locals, calls, ledger>>

\* lines 68-82: Commands::Register, up to the unwrap of the submission.
RegisterTx(p) ==
    [owner |-> "examples", verifier |-> "risc0", program_id |-> "GUEST_ID",
     state_digest |-> AsDigest(TokenNew(cli[p].supply, Faucet(cli[p].contract_name))),
     contract_name |-> cli[p].contract_name]

\* Variant: a failed registration is sent again.
Register_retry(p) ==
    /\ pc[p] = "register"
    /\ Println(p, Fmt("Initial state: {:?}",
                     <<TokenNew(cli[p].supply, Faucet(cli[p].contract_name))>>))
    /\ \/ \E r \in Responses :
            /\ Call(p, "send_tx_register_contract", RegisterTx(p), Ok(r))
            /\ ledger' = [ledger EXCEPT !.register_txs = @ \cup {RegisterTx(p)}]
            /\ res' = [res EXCEPT ![p] = Some(r)]
            /\ Goto(p, "register_text")
       \/ /\ Call(p, "send_tx_register_contract", RegisterTx(p), Err(Msg("network")))
          /\ IF Len(calls[p]) = 0 THEN Goto(p, "register") ELSE Panic(p, 82, Msg("network"))
          /\ UNCHANGED <<ledger, res>>
    /\ UNCHANGED <<cli, engine, initial_state, blobs, inputs, binary, receipt, hyle_output,
                   prove_result, blob_tx_hash, proof_tx_hash>>

Register(p) ==
    /\ pc[p] = "register"
    /\ Println(p, Fmt("Initial state: {:?}",
                     <<TokenNew(cli[p].supply, Faucet(cli[p].contract_name))>>))
    /\ \/ \E r \in Responses :
            /\ Call(p, "send_tx_register_contract", RegisterTx(p), Ok(r))
            /\ ledger' = [ledger EXCEPT !.register_txs = @ \cup {RegisterTx(p)}]
            /\ res' = [res EXCEPT ![p] = Some(r)]
            /\ Goto(p, "register_text")
       \/ /\ Call(p, "send_tx_register_contract", RegisterTx(p), Err(Msg("network")))
          /\ Panic(p, 82, Msg("network"))
          /\ UNCHANGED <<ledger, res>>
    /\ UNCHANGED <<cli, engine, initial_state, blobs, inputs, binary, receipt, hyle_output,
                   prove_result, blob_tx_hash, proof_tx_hash>>

\* lines 83-86: print the registration hash read from the response body.
RegisterText(p) ==
    /\ pc[p] = "register_text"
    /\ IF res[p][1].text.ok
       THEN /\ Println(p, Fmt("Register contract tx sent. Tx hash: {}", <<res[p][1].text.val>>))
            /\ Goto(p, "done")
       ELSE /\ Panic(p, 85, res[p][1].text.err)
            /\ UNCHANGED stdout
    /\ UNCHANGED <<cli, engine, locals, calls, ledger>>

\* lines 89-94: Commands::Transfer, query of the contract's committed state.
GetContract(p) ==
    /\ pc[p] = "get_contract"
    /\ \/ /\ ledger.state[cli[p].contract_name] # None
          /\ LET d == ledger.state[cli[p].contract_name][1]
             IN /\ Call(p, "get_contract", cli[p].contract_name, Ok(d))
                /\ initial_state' = [initial_state EXCEPT ![p] = Some(FromDigest(d))]
          /\ Goto(p, "build")
       \/ /\ Call(p, "get_contract", cli[p].contract_name, Err(Msg("network")))
          /\ Panic(p, 92, Msg("network"))
          /\ UNCHANGED initial_state
    /\ UNCHANGED <<cli, engine, blobs, inputs, binary, receipt, hyle_output, prove_result,
                   blob_tx_hash, res, proof_tx_hash, stdout, ledger>>

\* lines 96-116: the action, its blob and the contract input.
\* Variant: the blob data also carries the sender.
Blobs_with_sender(p) ==
    <<[contract_name |-> cli[p].contract_name,
       data |-> EncodeAction([recipient |-> cli[p].to, amount |-> cli[p].amount])
                \o StrBytes(cli[p].from)]>>

Blobs(p) ==
    <<[contract_name |-> cli[p].contract_name,
       data |-> EncodeAction([recipient |-> cli[p].to, amount |-> cli[p].amount])]>>

\* Variant: the contract input takes the state the ledger holds when the input
\* is built, not the one the query returned.
Build_reread_state(p) ==
    /\ pc[p] = "build"
    /\ blobs' = [blobs EXCEPT ![p] = Blobs(p)]
    /\ inputs' = [inputs EXCEPT ![p] =
          Some([initial_state |-> IF ledger.state[cli[p].contract_name] # None
                                  THEN FromDigest(ledger.state[cli[p].contract_name][1])
                                  ELSE initial_state[p][1],
                identity |-> cli[p].from,
                tx_hash |-> "",
                private_blob |-> <<>>,
                blobs |-> Blobs(p),
                index |-> 0])]
    /\ Goto(p, "prove_binary")
    /\ UNCHANGED <<cli, engine, initial_state, binary, receipt, hyle_output, prove_result,
                   blob_tx_hash, res, proof_tx_hash, stdout, calls, ledger>>

\* Variant: the blob index counts from one.
Build_index_from_one(p) ==
    /\ pc[p] = "build"
    /\ blobs' = [blobs EXCEPT ![p] = Blobs(p)]
    /\ inputs' = [inputs EXCEPT ![p] =
          Some([initial_state |-> initial_state[p][1],
                identity |-> cli[p].from,
                tx_hash |-> "",
                private_blob |-> <<>>,
                blobs |-> Blobs(p),
                index |-> Len(Blobs(p))])]
    /\ Goto(p, "prove_binary")
    /\ UNCHANGED <<cli, engine, initial_state, binary, receipt, hyle_output, prove_result,
                   blob_tx_hash, res, proof_tx_hash, stdout, calls, ledger>>

Build(p) ==
    /\ pc[p] = "build"
    /\ blobs' = [blobs EXCEPT ![p] = Blobs(p)]
    /\ inputs' = [inputs EXCEPT ![p] =
          Some([initial_state |-> initial_state[p][1],
                identity |-> cli[p].from,
                tx_hash |-> "",
                private_blob |-> <<>>,
                blobs |-> Blobs(p),
                index |-> 0])]
    /\ Goto(p, "prove_binary")
    /\ UNCHANGED <<cli, engine, initial_state, binary, receipt, hyle_output, prove_result,
                   blob_tx_hash, res, proof_tx_hash, stdout, calls, ledger>>

\* ------------------------------------------------------------------ prove
\* lines 148-160: executor environment, prover, choice of the guest binary.
\* Variant: an unreadable reproducible binary falls back to the embedded one.
ProveBinary_fallback(p) ==
    /\ pc[p] = "prove_binary"
    /\ IF cli[p].reproducible
       THEN \/ /\ Call(p, "fs_read", "docker/method/method", Ok("DOCKER_ELF"))
               /\ binary' = [binary EXCEPT ![p] = Some("DOCKER_ELF")]
               /\ Goto(p, "prove_run")
            \/ /\ Call(p, "fs_read", "docker/method/method", Err(Msg("io")))
               /\ binary' = [binary EXCEPT ![p] = Some("GUEST_ELF")]
               /\ Goto(p, "prove_run")
       ELSE /\ binary' = [binary EXCEPT ![p] = Some("GUEST_ELF")]
            /\ Goto(p, "prove_run")
            /\ UNCHANGED calls
    /\ UNCHANGED <<cli, engine, initial_state, blobs, inputs, receipt, hyle_output, prove_result,
                   blob_tx_hash, res, proof_tx_hash, stdout, ledger>>

ProveBinary(p) ==
    /\ pc[p] = "prove_binary"
    /\ IF cli[p].reproducible
       THEN \/ /\ Call(p, "fs_read", "docker/method/method", Ok("DOCKER_ELF"))
               /\ binary' = [binary EXCEPT ![p] = Some("DOCKER_ELF")]
               /\ Goto(p, "prove_run")
            \/ /\ Call(p, "fs_read", "docker/method/method", Err(Msg("io")))
               /\ Panic(p, 157, Msg("Could not read ELF binary"))
               /\ UNCHANGED binary
       ELSE /\ binary' = [binary EXCEPT ![p] = Some("GUEST_ELF")]
            /\ Goto(p, "prove_run")
            /\ UNCHANGED calls
    /\ UNCHANGED <<cli, engine, initial_state, blobs, inputs, receipt, hyle_output, prove_result,
                   blob_tx_hash, res, proof_tx_hash, stdout, ledger>>

\* line 161: prover.prove(env, &binary).unwrap().receipt
\* Variant: a failed proving attempt yields an empty receipt, which is then
\* validated like any other.
ProveRun_empty_receipt(p) ==
    /\ pc[p] = "prove_run"
    /\ LET arg == [binary |-> binary[p][1], input |-> inputs[p][1]]
       IN \/ \E j \in engine :
               /\ Call(p, "prove", arg, Ok(j))
               /\ receipt' = [receipt EXCEPT ![p] = Some([journal |-> j, seal |-> arg])]
               /\ Goto(p, "prove_decode")
          \/ /\ Call(p, "prove", arg, Err(Msg("engine")))
             /\ receipt' = [receipt EXCEPT ![p] = Some([journal |-> <<>>, seal |-> arg])]
             /\ Goto(p, "prove_decode")
    /\ UNCHANGED <<cli, engine, initial_state, blobs, inputs, binary, hyle_output, prove_result,
                   blob_tx_hash, res, proof_tx_hash, stdout, ledger>>

\* Variant: a failed proving attempt is made again.
ProveRun_retry(p) ==
    /\ pc[p] = "prove_run"
    /\ LET arg == [binary |-> binary[p][1], input |-> inputs[p][1]]
       IN \/ \E j \in engine :
               /\ Call(p, "prove", arg, Ok(j))
               /\ receipt' = [receipt EXCEPT ![p] = Some([journal |-> j, seal |-> arg])]
               /\ Goto(p, "prove_decode")
          \/ /\ Call(p, "prove", arg, Err(Msg("engine")))
             /\ Goto(p, "prove_run")
             /\ UNCHANGED receipt
    /\ UNCHANGED <<cli, engine, initial_state, blobs, inputs, binary, hyle_output, prove_result,
                   blob_tx_hash, res, proof_tx_hash, stdout, ledger>>

ProveRun(p) ==
    /\ pc[p] = "prove_run"
    /\ LET arg == [binary |-> binary[p][1], input |-> inputs[p][1]]
       IN \/ \E j \in engine :
               /\ Call(p, "prove", arg, Ok(j))
               /\ receipt' = [receipt EXCEPT ![p] = Some([journal |-> j, seal |-> arg])]
               /\ Goto(p, "prove_decode")
          \/ /\ Call(p, "prove", arg, Err(Msg("engine")))
             /\ Panic(p, 161, Msg("engine"))
             /\ UNCHANGED receipt
    /\ UNCHANGED <<cli, engine, initial_state, blobs, inputs, binary, hyle_output, prove_result,
                   blob_tx_hash, res, proof_tx_hash, stdout, ledger>>

\* lines 163-166: decode of the journal into a HyleOutput.
\* Variant: an undecodable journal is reported through the error of prove(),
\* with the message of a failed execution.
ProveDecode_bail(p) ==
    /\ pc[p] = "prove_decode"
    /\ LET d == DecodeJournal(receipt[p][1].journal)
       IN IF d.ok
          THEN /\ hyle_output' = [hyle_output EXCEPT ![p] = Some(d.val)]
               /\ Goto(p, "prove_check")
               /\ UNCHANGED prove_result
          ELSE /\ prove_result' = [prove_result EXCEPT ![p] = Some(Err(Msg("Execution failed")))]
               /\ Goto(p, "prove_return")
               /\ UNCHANGED hyle_output
    /\ UNCHANGED <<cli, engine, initial_state, blobs, inputs, binary, receipt,
                   blob_tx_hash, res, proof_tx_hash, stdout, calls, ledger>>

\* Variant: an undecodable journal is replaced by a default successful output.
ProveDecode_default(p) ==
    /\ pc[p] = "prove_decode"
    /\ LET d == DecodeJournal(receipt[p][1].journal)
       IN /\ hyle_output' = [hyle_output EXCEPT ![p] =
                Some(IF d.ok THEN d.val ELSE [success |-> TRUE, program_outputs |-> <<>>])]
          /\ Goto(p, "prove_check")
    /\ UNCHANGED <<cli, engine, initial_state, blobs, inputs, binary, receipt, prove_result,
                   blob_tx_hash, res, proof_tx_hash, stdout, calls, ledger>>

ProveDecode(p) ==
    /\ pc[p] = "prove_decode"
    /\ LET d == DecodeJournal(receipt[p][1].journal)
       IN IF d.ok
          THEN /\ hyle_output' = [hyle_output EXCEPT ![p] = Some(d.val)]
               /\ Goto(p, "prove_check")
          ELSE /\ Panic(p, 166, Msg("Failed to decode journal"))
               /\ UNCHANGED hyle_output
    /\ UNCHANGED <<cli, engine, initial_state, blobs, inputs, binary, receipt, prove_result,
                   blob_tx_hash, res, proof_tx_hash, stdout, calls, ledger>>

\* lines 168-176: a failed execution is reported and turned into an error.
\* Variant: a diagnostic that is not UTF-8 is skipped together with the check
\* it belongs to, and the receipt is returned.
ProveCheck_skip_invalid_utf8(p) ==
    /\ pc[p] = "prove_check"
    /\ LET program_error == Utf8Decode(hyle_output[p][1].program_outputs)
       IN IF ~hyle_output[p][1].success /\ program_error.ok
          THEN /\ Println(p, Fmt("Execution failed ! Program output: {}",
                                 <<program_error.val>>))
               /\ prove_result' = [prove_result EXCEPT ![p] = Some(Err(Msg("Execution failed")))]
               /\ Goto(p, "prove_return")
          ELSE /\ prove_result' = [prove_result EXCEPT ![p] = Some(Ok(receipt[p][1]))]
               /\ Goto(p, "prove_return")
               /\ UNCHANGED stdout
    /\ UNCHANGED <<cli, engine, initial_state, blobs, inputs, binary, receipt, hyle_output,
                   blob_tx_hash, res, proof_tx_hash, calls, ledger>>

\* Variant: the diagnostic is printed as raw bytes, without UTF-8 decoding.
ProveCheck_print_bytes(p) ==
    /\ pc[p] = "prove_check"
    /\ IF ~hyle_output[p][1].success
       THEN /\ Println(p, Fmt("Execution failed ! Program output: {}",
                              <<hyle_output[p][1].program_outputs>>))
            /\ prove_result' = [prove_result EXCEPT ![p] = Some(Err(Msg("Execution failed")))]
            /\ Goto(p, "prove_return")
       ELSE /\ prove_result' = [prove_result EXCEPT ![p] = Some(Ok(receipt[p][1]))]
            /\ Goto(p, "prove_return")
            /\ UNCHANGED stdout
    /\ UNCHANGED <<cli, engine, initial_state, blobs, inputs, binary, receipt, hyle_output,
                   blob_tx_hash, res, proof_tx_hash, calls, ledger>>

\* Variant: a failed execution is reported but not turned into an error.
ProveCheck_no_bail(p) ==
    /\ pc[p] = "prove_check"
    /\ IF ~hyle_output[p][1].success
       THEN LET program_error == Utf8Decode(hyle_output[p][1].program_outputs)
            IN IF program_error.ok
               THEN /\ Println(p, Fmt("Execution failed ! Program output: {}",
                                     <<program_error.val>>))
                    /\ prove_result' = [prove_result EXCEPT ![p] = Some(Ok(receipt[p][1]))]
                    /\ Goto(p, "prove_return")
               ELSE /\ Panic(p, 169, program_error.err)
                    /\ UNCHANGED <<stdout, prove_result>>
       ELSE /\ prove_result' = [prove_result EXCEPT ![p] = Some(Ok(receipt[p][1]))]
            /\ Goto(p, "prove_return")
            /\ UNCHANGED stdout
    /\ UNCHANGED <<cli, engine, initial_state, blobs, inputs, binary, receipt, hyle_output,
                   blob_tx_hash, res, proof_tx_hash, calls, ledger>>

ProveCheck(p) ==
    /\ pc[p] = "prove_check"
    /\ IF ~hyle_output[p][1].success
       THEN LET program_error == Utf8Decode(hyle_output[p][1].program_outputs)
            IN IF program_error.ok
               THEN /\ Println(p, Fmt("Execution failed ! Program output: {}",
                                     <<program_error.val>>))
                    /\ prove_result' = [prove_result EXCEPT ![p] = Some(Err(Msg("Execution failed")))]
                    /\ Goto(p, "prove_return")
               ELSE /\ Panic(p, 169, program_error.err)
                    /\ UNCHANGED <<stdout, prove_result>>
       ELSE /\ prove_result' = [prove_result EXCEPT ![p] = Some(Ok(receipt[p][1]))]
            /\ Goto(p, "prove_return")
            /\ UNCHANGED stdout
    /\ UNCHANGED <<cli, engine, initial_state, blobs, inputs, binary, receipt, hyle_output,
                   blob_tx_hash, res, proof_tx_hash, calls, ledger>>

\* line 118: let receipt = prove(cli.reproducible, inputs).unwrap();
\* Variant: the error returned by prove() is ignored.
ProveUnwrap_ignore_error(p) ==
    /\ pc[p] = "prove_return"
    /\ Goto(p, "send_blob")
    /\ UNCHANGED <<cli, engine, locals, stdout, calls, ledger>>

ProveUnwrap(p) ==
    /\ pc[p] = "prove_return"
    /\ IF prove_result[p][1].ok
       THEN Goto(p, "send_blob")
       ELSE Panic(p, 118, prove_result[p][1].err)
    /\ UNCHANGED <<cli, engine, locals, stdout, calls, ledger>>

\* ------------------------------------------------------------- submission
\* lines 120-127: the blob transaction.
\* Variant: the blob transaction is sent in the name of the recipient.
BlobTx_recipient_identity(p) == [identity |-> cli[p].to, blobs |-> blobs[p]]

BlobTx(p) == [identity |-> cli[p].from, blobs |-> blobs[p]]

\* Variant: a failed blob submission is not fatal (the error is dropped and
\* an empty hash is used).
SendTxBlob_ignore_error(p) ==
    /\ pc[p] = "send_blob"
    /\ \/ \E h \in Hashes :
            /\ Call(p, "send_tx_blob", BlobTx(p), Ok(h))
            /\ ledger' = [ledger EXCEPT !.blob_txs = @ \cup {[hash |-> h, tx |-> BlobTx(p)]}]
            /\ blob_tx_hash' = [blob_tx_hash EXCEPT ![p] = Some(h)]
            /\ Println(p, Fmt("Blob tx sent. Tx hash: {}", <<h>>))
            /\ Goto(p, "send_proof")
       \/ /\ Call(p, "send_tx_blob", BlobTx(p), Err(Msg("network")))
          /\ blob_tx_hash' = [blob_tx_hash EXCEPT ![p] = Some("")]
          /\ Goto(p, "send_proof")
          /\ UNCHANGED <<ledger, stdout>>
    /\ UNCHANGED <<cli, engine, initial_state, blobs, inputs, binary, receipt, hyle_output,
                   prove_result, res, proof_tx_hash>>

SendTxBlob(p) ==
    /\ pc[p] = "send_blob"
    /\ \/ \E h \in Hashes :
            /\ Call(p, "send_tx_blob", BlobTx(p), Ok(h))
            /\ ledger' = [ledger EXCEPT !.blob_txs = @ \cup {[hash |-> h, tx |-> BlobTx(p)]}]
            /\ blob_tx_hash' = [blob_tx_hash EXCEPT ![p] = Some(h)]
            /\ Println(p, Fmt("Blob tx sent. Tx hash: {}", <<h>>))
            /\ Goto(p, "send_proof")
       \/ /\ Call(p, "send_tx_blob", BlobTx(p), Err(Msg("network")))
          /\ Panic(p, 126, Msg("network"))
          /\ UNCHANGED <<ledger, blob_tx_hash, stdout>>
    /\ UNCHANGED <<cli, engine, initial_state, blobs, inputs, binary, receipt, hyle_output,
                   prove_result, res, proof_tx_hash>>

\* lines 129-138: the proof transaction.
\* Variant: the hash is kept in a place all invocations share, and the proof
\* transaction names whichever hash is found there.
ProofTx_shared_hash(p) ==
    [blob_tx_hash |-> blob_tx_hash[CHOOSE q \in Procs : blob_tx_hash[q] # None][1],
     proof |-> EncodeReceipt(prove_result[p][1].val),
     contract_name |-> cli[p].contract_name]

\* Variant: the proof transaction names the hash known at proving time
\* (the empty tx_hash of the contract input).
ProofTx_input_hash(p) ==
    [blob_tx_hash |-> inputs[p][1].tx_hash,
     proof |-> EncodeReceipt(prove_result[p][1].val),
     contract_name |-> cli[p].contract_name]

ProofTx(p) ==
    [blob_tx_hash |-> blob_tx_hash[p][1],
     proof |-> EncodeReceipt(prove_result[p][1].val),
     contract_name |-> cli[p].contract_name]

\* Variant: a failed proof submission is attempted again.
SendTxProof_retry(p) ==
    /\ pc[p] = "send_proof"
    /\ \/ \E r \in Responses :
            /\ Call(p, "send_tx_proof", ProofTx(p), Ok(r))
            /\ ledger' = [ledger EXCEPT !.proof_txs = @ \cup {ProofTx(p)}]
            /\ proof_tx_hash' = [proof_tx_hash EXCEPT ![p] = Some(r)]
            /\ Goto(p, "proof_text")
       \/ /\ Call(p, "send_tx_proof", ProofTx(p), Err(Msg("network")))
          /\ Goto(p, "send_proof")
          /\ UNCHANGED <<ledger, proof_tx_hash>>
    /\ UNCHANGED <<cli, engine, initial_state, blobs, inputs, binary, receipt, hyle_output,
                   prove_result, blob_tx_hash, res, stdout>>

\* Variant: a failed proof submission is swallowed and the run completes.
SendTxProof_swallow(p) ==
    /\ pc[p] = "send_proof"
    /\ \/ \E r \in Responses :
            /\ Call(p, "send_tx_proof", ProofTx(p), Ok(r))
            /\ ledger' = [ledger EXCEPT !.proof_txs = @ \cup {ProofTx(p)}]
            /\ proof_tx_hash' = [proof_tx_hash EXCEPT ![p] = Some(r)]
            /\ Goto(p, "proof_text")
       \/ /\ Call(p, "send_tx_proof", ProofTx(p), Err(Msg("network")))
          /\ Goto(p, "done")
          /\ UNCHANGED <<ledger, proof_tx_hash>>
    /\ UNCHANGED <<cli, engine, initial_state, blobs, inputs, binary, receipt, hyle_output,
                   prove_result, blob_tx_hash, res, stdout>>

SendTxProof(p) ==
    /\ pc[p] = "send_proof"
    /\ \/ \E r \in Responses :
            /\ Call(p, "send_tx_proof", ProofTx(p), Ok(r))
            /\ ledger' = [ledger EXCEPT !.proof_txs = @ \cup {ProofTx(p)}]
            /\ proof_tx_hash' = [proof_tx_hash EXCEPT ![p] = Some(r)]
            /\ Goto(p, "proof_text")
       \/ /\ Call(p, "send_tx_proof", ProofTx(p), Err(Msg("network")))
          /\ Panic(p, 138, Msg("network"))
          /\ UNCHANGED <<ledger, proof_tx_hash>>
    /\ UNCHANGED <<cli, engine, initial_state, blobs, inputs, binary, receipt, hyle_output,
                   prove_result, blob_tx_hash, res, stdout>>

\* lines 139-142: print the proof hash read from the response body.
ProofText(p) ==
    /\ pc[p] = "proof_text"
    /\ IF proof_tx_hash[p][1].text.ok
       THEN /\ Println(p, Fmt("Proof tx sent. Tx hash: {}", <<proof_tx_hash[p][1].text.val>>))
            /\ Goto(p, "done")
       ELSE /\ Panic(p, 141, proof_tx_hash[p][1].text.err)
            /\ UNCHANGED stdout
    /\ UNCHANGED <<cli, engine, locals, calls, ledger>>

\* ----------------------------------------------------------------- ledger
\* The ledger settles transactions of any party: the committed state of a
\* contract an invocation names changes behind the client's back.
LedgerCommit ==
    /\ \E p \in Procs, s \in 0..MaxSupply :
          LET c == cli[p].contract_name
              d == AsDigest(TokenNew(s, Faucet(c)))
          IN  /\ pc[p] # "idle"
              /\ ledger.state[c] # Some(d)
              /\ ledger' = [ledger EXCEPT !.state[c] = Some(d)]
    /\ UNCHANGED <<cli, engine, pc, locals, stdout, panic, calls>>

\* ----------------------------------------------------------------- stages
\* The stage of the pipeline an invocation of Transfer is in.
Stage(p) ==
    CASE pc[p] \in {"main", "get_contract", "build"} -> "Building"
      [] pc[p] \in {"prove_binary", "prove_run"} -> "Proving"
      [] pc[p] \in {"prove_decode", "prove_check", "prove_return"} -> "Validating"
      [] pc[p] = "send_blob" -> "SubmittingBlob"
      [] pc[p] \in {"send_proof", "proof_text"} -> "SubmittingProof"
      [] pc[p] = "done" -> "Done"
      [] pc[p] = "panicked" -> "Failed"
      [] OTHER -> "Idle"

\* ------------------------------------------------------------------- Next
Next ==
    \/ \E p \in Procs : Main(p)
    \/ \E p \in Procs : Register(p)
    \/ \E p \in Procs : RegisterText(p)
    \/ \E p \in Procs : GetContract(p)
    \/ \E p \in Procs : Build(p)
    \/ \E p \in Procs : ProveBinary(p)
    \/ \E p \in Procs : ProveRun(p)
    \/ \E p \in Procs : ProveDecode(p)
    \/ \E p \in Procs : ProveCheck(p)
    \/ \E p \in Procs : ProveUnwrap(p)
    \/ \E p \in Procs : SendTxBlob(p)
    \/ \E p \in Procs : SendTxProof(p)
    \/ \E p \in Procs : ProofText(p)
    \/ LedgerCommit

Spec == Init /\ [][Next]_vars

\* ------------------------------------------------------------- fairness
\* main() runs on the async runtime until it returns or panics, and every
\* call it awaits returns a result or an error: each invocation keeps taking
\* its next step.  The ledger's own commits are under no such obligation.
Step(p) ==
    \/ Main(p) \/ Register(p) \/ RegisterText(p) \/ GetContract(p) \/ Build(p)
    \/ ProveBinary(p) \/ ProveRun(p) \/ ProveDecode(p) \/ ProveCheck(p) \/ ProveUnwrap(p)
    \/ SendTxBlob(p) \/ SendTxProof(p) \/ ProofText(p)

\* One journal of each kind the program tells apart: a successful outcome, a
\* failed one with a readable diagnostic, a failed one whose diagnostic is not
\* UTF-8, and a journal that does not decode.
KindJournals ==
    {EncodeJournal([success |-> TRUE, program_outputs |-> <<>>]),
     EncodeJournal([success |-> FALSE, program_outputs |-> <<65>>]),
     EncodeJournal([success |-> FALSE, program_outputs |-> <<195>>]),
     <<2, 0>>}

\* One invocation of the binary, any command line, the ledger in any state.
InitFair ==
    /\ \E c \in Clis : cli = [p \in Procs |-> IF p = 1 THEN c ELSE IdleCli]
    /\ engine = KindJournals
    /\ pc = [p \in Procs |-> IF p = 1 THEN "main" ELSE "idle"]
    /\ InitLocals
    /\ \E st \in LedgerStates({cli[1].contract_name}) :
          ledger = [state |-> st, register_txs |-> {}, blob_txs |-> {},
                    proof_txs |-> {}]

FairSpec == InitFair /\ [][Next]_vars /\ \A p \in Procs : WF_vars(Step(p))

\* --------------------------------------------- concurrent invocations
\* Several invocations of the binary run at once against one ledger, their
\* steps interleaved in any order.  To keep the interleavings few, they
\* name one registered contract, use the embedded binary, transfer to one
\* recipient, and the engine produces one journal of each kind.
ConcClis ==
    {c \in Clis :
        /\ c.contract_name = "simple_token"
        /\ ~c.reproducible
        /\ c.command = "Transfer" => c.to = "bob" /\ c.amount \in {0, MaxAmount}
        /\ c.command = "Register" => c.supply = 0}

ConcJournals ==
    {EncodeJournal([success |-> TRUE, program_outputs |-> <<>>]),
     EncodeJournal([success |-> FALSE, program_outputs |-> <<65>>]),
     <<2, 0>>}

InitConc ==
    /\ cli \in [Procs -> ConcClis]
    /\ engine = ConcJournals
    /\ pc = [p \in Procs |-> "main"]
    /\ InitLocals
    /\ ledger = [state |-> [c \in ContractNames |->
                              IF c = "simple_token"
                              THEN Some(AsDigest(TokenNew(0, Faucet(c)))) ELSE None],
                 register_txs |-> {}, blob_txs |-> {}, proof_txs |-> {}]

SpecConc == InitConc /\ [][Next]_vars

\* ================================================================ claims
\* Positions in the call log of invocation p at which `op` was called.
CallsOf(p, op) == {i \in 1..Len(calls[p]) : calls[p][i].op = op}
Submitted(p) == CallsOf(p, "send_tx_blob") \cup CallsOf(p, "send_tx_proof")
IsTransfer(p) == pc[p] # "idle" /\ cli[p].command = "Transfer"

\* C1: send_tx_proof is invoked only after send_tx_blob has returned a hash;
\* in a run whose blob submission failed, send_tx_proof is never invoked.
Thm_C1_ProofOnlyAfterBlobHash ==
    \A p \in Procs :
        /\ \A i \in CallsOf(p, "send_tx_proof") :
              \E j \in CallsOf(p, "send_tx_blob") : j < i /\ calls[p][j].ret.ok
        /\ (\E j \in CallsOf(p, "send_tx_blob") : ~calls[p][j].ret.ok)
              => CallsOf(p, "send_tx_proof") = {}

Wit_C1_ProofCalledAfterBlob ==
    \E p \in Procs :
        /\ CallsOf(p, "send_tx_proof") # {}
        /\ \E j \in CallsOf(p, "send_tx_blob") : calls[p][j].ret.ok

\* C2: when the decoded outcome has success = false, neither a blob nor a
\* proof transaction is submitted by that run.
Thm_C2_NoSubmissionOnFailedOutcome ==
    \A p \in Procs :
        (hyle_output[p] # None /\ ~hyle_output[p][1].success) => Submitted(p) = {}

Wit_C2_FailedOutcomeRunEnded ==
    \E p \in Procs :
        /\ hyle_output[p] # None /\ ~hyle_output[p][1].success
        /\ pc[p] = "panicked"
        /\ panic[p][1].line = 118

\* C3: when proving succeeded with success = true and both submissions
\* succeeded, the blob_tx_hash of the submitted ProofTransaction is the hash
\* the blob submission of the same run returned.
Thm_C3_ProofNamesReturnedBlobHash ==
    \A p \in Procs :
        \A i \in CallsOf(p, "send_tx_proof") :
            calls[p][i].ret.ok =>
                /\ \E j \in CallsOf(p, "send_tx_blob") : calls[p][j].ret.ok
                /\ \A j \in CallsOf(p, "send_tx_blob") :
                      calls[p][j].ret.ok /\ calls[p][i].arg.blob_tx_hash = calls[p][j].ret.val

Wit_C3_BothSubmitted ==
    \E p \in Procs :
        /\ pc[p] = "done"
        /\ hyle_output[p] # None /\ hyle_output[p][1].success
        /\ \E i \in CallsOf(p, "send_tx_proof") :
              calls[p][i].ret.ok /\ calls[p][i].arg.blob_tx_hash = "h2"

\* C4: when the journal of the receipt cannot be decoded into a HyleOutput,
\* the run fails at the decode and submits no blob and no proof transaction.
Undecodable(p) == receipt[p] # None /\ ~DecodeJournal(receipt[p][1].journal).ok

Thm_C4_UndecodableJournalIsFatal ==
    \A p \in Procs :
        Undecodable(p) =>
            /\ Submitted(p) = {}
            /\ pc[p] \in {"prove_decode", "panicked"}
            /\ pc[p] = "panicked" => panic[p][1].line = 166

Wit_C4_UndecodableJournalPanicked ==
    \E p \in Procs : Undecodable(p) /\ pc[p] = "panicked" /\ panic[p][1].line = 166

\* A run that ended in semantic rejection: the outcome decoded with
\* success = false and the invocation has ended.
Rejected(p) == hyle_output[p] # None /\ ~hyle_output[p][1].success /\ pc[p] = "panicked"
LedgerCalls(p) == {i \in 1..Len(calls[p]) : calls[p][i].op \in LedgerOps}

\* C5 as stated: a run that ends in semantic rejection has made no call to
\* any operation of the ledger service, the contract-state query included.
Cex_C5_NoLedgerCallAtAll ==
    \A p \in Procs : Rejected(p) => LedgerCalls(p) = {}

\* C5 (amended): a run that ends in semantic rejection has made exactly one
\* call to the ledger service, the contract-state query that precedes
\* proving; it has submitted no blob, proof or registration transaction.
Thm_C5_OnlyStateQueryOnRejection ==
    \A p \in Procs :
        Rejected(p) =>
            /\ LedgerCalls(p) = {1}
            /\ calls[p][1].op = "get_contract" /\ calls[p][1].ret.ok
            /\ \A i \in CallsOf(p, "prove") : i > 1

Wit_C5_RejectedAfterStateQuery ==
    \E p \in Procs :
        /\ Rejected(p)
        /\ hyle_output[p][1].program_outputs = <<65, 65>>
        /\ calls[p][1].op = "get_contract"

\* C6: when the blob submission succeeded and the proof submission failed,
\* the run has failed, the failed proof submission is its last call (no
\* compensating call follows), each submission was made once, and the blob
\* transaction is still held by the ledger.
Thm_C6_DanglingBlobNoRollback ==
    \A p \in Procs :
        \A i \in CallsOf(p, "send_tx_proof") :
            ~calls[p][i].ret.ok =>
                /\ pc[p] = "panicked" /\ panic[p][1].line = 138
                /\ i = Len(calls[p])
                /\ CallsOf(p, "send_tx_proof") = {i}
                /\ Cardinality(CallsOf(p, "send_tx_blob")) = 1
                /\ \A j \in CallsOf(p, "send_tx_blob") :
                      /\ calls[p][j].ret.ok
                      /\ [hash |-> calls[p][j].ret.val, tx |-> calls[p][j].arg]
                            \in ledger.blob_txs

Wit_C6_ProofFailedAfterBlob ==
    \E p \in Procs :
        /\ pc[p] = "panicked" /\ panic[p][1].line = 138
        /\ \E i \in CallsOf(p, "send_tx_proof") : ~calls[p][i].ret.ok
        /\ ledger.blob_txs # {}

\* C7: within one invocation prove, send_tx_blob and send_tx_proof are each
\* invoked at most once, whatever the outcome of any step.
Thm_C7_NoRetry ==
    \A p \in Procs :
        \A op \in {"prove", "send_tx_blob", "send_tx_proof"} :
            Cardinality(CallsOf(p, op)) <= 1

Wit_C7_EachStepOnce ==
    \E p \in Procs :
        /\ \A op \in {"prove", "send_tx_blob", "send_tx_proof"} :
              Cardinality(CallsOf(p, op)) = 1
        /\ pc[p] \in {"done", "panicked"}

\* C8: when reproducible mode is requested and the binary file cannot be
\* read, the run fails at the read: prove is not invoked, no binary (the
\* embedded one included) is selected, and nothing is submitted.
ReadFailed(p) == \E i \in CallsOf(p, "fs_read") : ~calls[p][i].ret.ok

Thm_C8_UnreadableBinaryIsFatal ==
    \A p \in Procs :
        ReadFailed(p) =>
            /\ cli[p].reproducible
            /\ pc[p] = "panicked" /\ panic[p][1].line = 157
            /\ binary[p] = None
            /\ CallsOf(p, "prove") = {}
            /\ Submitted(p) = {}

Wit_C8_UnreadableBinaryPanicked ==
    \E p \in Procs : ReadFailed(p) /\ cli[p].reproducible /\ pc[p] = "panicked"

\* C9 as stated: when the outcome has success = false, the error value
\* returned by prove() carries the diagnostic text (program_outputs read as
\* UTF-8).
Cex_C9_ErrorCarriesDiagnostic ==
    \A p \in Procs :
        (prove_result[p] # None /\ ~prove_result[p][1].ok) =>
            \E k \in 1..Len(prove_result[p][1].err.args) :
                prove_result[p][1].err.args[k]
                    = Utf8Decode(hyle_output[p][1].program_outputs).val

\* C9 (amended): when the outcome has success = false and program_outputs is
\* valid UTF-8, the diagnostic text is the last line printed on standard
\* output before prove() returns, and the error value returned is the fixed
\* message "Execution failed", which does not carry the text.
Thm_C9_DiagnosticPrintedNotReturned ==
    \A p \in Procs :
        (/\ hyle_output[p] # None
         /\ ~hyle_output[p][1].success
         /\ Utf8Decode(hyle_output[p][1].program_outputs).ok
         /\ pc[p] # "prove_check") =>
            LET text == Utf8Decode(hyle_output[p][1].program_outputs).val
                last == stdout[p][Len(stdout[p])]
            IN /\ last.fmt = "Execution failed ! Program output: {}"
               /\ last.args = <<text>>
               /\ prove_result[p] = Some(Err(Msg("Execution failed")))

Wit_C9_NonAsciiDiagnosticPrinted ==
    \E p \in Procs :
        /\ prove_result[p] # None /\ ~prove_result[p][1].ok
        /\ hyle_output[p][1].program_outputs = <<195, 169>>
        /\ stdout[p][Len(stdout[p])].args = <<(<<233>>)>>

\* C10: the stages of a transfer invocation are a prefix of Building,
\* Proving, Validating, SubmittingBlob, SubmittingProof, Done, optionally
\* followed by Failed: it starts in Building, each step stays in its stage,
\* moves to the next one or fails; Done and Failed are terminal; Done is
\* reached only after the proof submission succeeded.
NextStage(s) ==
    CASE s = "Building" -> "Proving"
      [] s = "Proving" -> "Validating"
      [] s = "Validating" -> "SubmittingBlob"
      [] s = "SubmittingBlob" -> "SubmittingProof"
      [] s = "SubmittingProof" -> "Done"
      [] OTHER -> "none"

StageStep(p) ==
    IsTransfer(p) =>
        \/ Stage(p)' = Stage(p)
        \/ Stage(p) \notin {"Done", "Failed"} /\ Stage(p)' \in {NextStage(Stage(p)), "Failed"}

DoneOnlyAfterProof ==
    \A p \in Procs :
        (IsTransfer(p) /\ Stage(p) = "Done") =>
            \E i \in CallsOf(p, "send_tx_proof") : calls[p][i].ret.ok

Thm_C10_StagesInOrder ==
    /\ \A p \in Procs : IsTransfer(p) => Stage(p) = "Building"
    /\ [][\A p \in Procs : StageStep(p)]_vars
    /\ []DoneOnlyAfterProof

Wit_C10_TransferDone ==
    \E p \in Procs : IsTransfer(p) /\ Stage(p) = "Done" /\ Len(calls[p]) >= 4

\* C11: the failure a caller observes (the panic: its place and message) for
\* a semantic rejection differs from the one of every other kind of failure:
\* an invocation has ended with the panic of a semantic rejection exactly
\* when its outcome decoded with success = false and a readable diagnostic,
\* and with a panic of lines 118 or 169 exactly when success = false.
SemanticRejectionPanic == [line |-> 118, msg |-> Msg("Execution failed")]

SemanticallyRejected(p) ==
    /\ hyle_output[p] # None
    /\ ~hyle_output[p][1].success
    /\ Utf8Decode(hyle_output[p][1].program_outputs).ok

Thm_C11_RejectionDistinguishable ==
    \A p \in Procs :
        pc[p] = "panicked" =>
            /\ panic[p][1] = SemanticRejectionPanic <=> SemanticallyRejected(p)
            /\ panic[p][1].line \in {118, 169}
                  <=> (hyle_output[p] # None /\ ~hyle_output[p][1].success)

Wit_C11_RejectionPanic ==
    \E p \in Procs :
        /\ pc[p] = "panicked"
        /\ panic[p][1] = SemanticRejectionPanic
        /\ SemanticallyRejected(p)

\* C12: when the outcome has success = false and program_outputs is not valid
\* UTF-8, the run ends in a panic at the reading of the diagnostic: prove()
\* returns nothing and no blob or proof transaction is submitted.
BadDiagnostic(p) ==
    /\ hyle_output[p] # None
    /\ ~hyle_output[p][1].success
    /\ ~Utf8Decode(hyle_output[p][1].program_outputs).ok

Thm_C12_NonUtf8DiagnosticIsFatal ==
    \A p \in Procs :
        BadDiagnostic(p) =>
            /\ Submitted(p) = {}
            /\ prove_result[p] = None
            /\ pc[p] \in {"prove_check", "panicked"}
            /\ pc[p] = "panicked" => panic[p][1].line = 169

Wit_C12_NonUtf8DiagnosticPanicked ==
    \E p \in Procs : BadDiagnostic(p) /\ pc[p] = "panicked" /\ panic[p][1].line = 169

\* C13: when the proving engine's prove fails, the invocation has failed at
\* that call: no receipt exists, the validation (decode and check of the
\* outcome) has not run, and no blob or proof transaction is submitted.
ProveFailed(p) == \E i \in CallsOf(p, "prove") : ~calls[p][i].ret.ok

Thm_C13_EngineFailureIsFatal ==
    \A p \in Procs :
        ProveFailed(p) =>
            /\ pc[p] = "panicked" /\ panic[p][1].line = 161
            /\ receipt[p] = None /\ hyle_output[p] = None /\ prove_result[p] = None
            /\ Submitted(p) = {}

Wit_C13_EngineFailurePanicked ==
    \E p \in Procs : ProveFailed(p) /\ pc[p] = "panicked" /\ Len(calls[p]) >= 2

\* C14 as stated: a transfer invocation that has ended is Done exactly when
\* the state query, proving, the outcome validation and both submissions
\* succeeded.
Terminated(p) == pc[p] \in {"done", "panicked"}

StepsSucceeded(p) ==
    /\ \E i \in CallsOf(p, "get_contract") : calls[p][i].ret.ok
    /\ \E i \in CallsOf(p, "prove") : calls[p][i].ret.ok
    /\ prove_result[p] # None /\ prove_result[p][1].ok
    /\ \E i \in CallsOf(p, "send_tx_blob") : calls[p][i].ret.ok
    /\ \E i \in CallsOf(p, "send_tx_proof") : calls[p][i].ret.ok

Cex_C14_DoneIffStepsSucceeded ==
    \A p \in Procs :
        (IsTransfer(p) /\ Terminated(p)) => (pc[p] = "done" <=> StepsSucceeded(p))

\* C14 (amended): given that every external call returns, every transfer
\* invocation eventually is Done or Failed; it is Done exactly when the state
\* query, proving, the outcome validation, both submissions and the reading
\* of the body of the proof submission's response all succeeded.
BodyRead(p) == proof_tx_hash[p] # None /\ proof_tx_hash[p][1].text.ok

Thm_C14_TerminatesDoneIffAllSucceeded ==
    /\ \A p \in Procs : IsTransfer(p) ~> Terminated(p)
    /\ [](\A p \in Procs :
            (IsTransfer(p) /\ Terminated(p)) =>
                (pc[p] = "done" <=> (StepsSucceeded(p) /\ BodyRead(p))))

Wit_C14_DoneAfterBodyRead ==
    \E p \in Procs :
        /\ IsTransfer(p) /\ pc[p] = "done"
        /\ StepsSucceeded(p) /\ BodyRead(p)
        /\ stdout[p][Len(stdout[p])].fmt = "Proof tx sent. Tx hash: {}"

\* C15: encoding is deterministic: two invocations that encode the same
\* transfer action (recipient and amount) for the same contract hold
\* identical blobs, whoever sends and whatever else differs between them; so
\* blobs for one contract differ only if recipient or amount differ.
SameAction(p, q) ==
    /\ cli[p].contract_name = cli[q].contract_name
    /\ cli[p].to = cli[q].to
    /\ cli[p].amount = cli[q].amount

ProvedOver(p, arg) ==
    \E k \in CallsOf(p, "prove") : calls[p][k].ret.ok /\ calls[p][k].arg = arg

Thm_C16_SubmittedWhatWasProved ==
    \A p \in Procs :
        /\ \A i \in CallsOf(p, "send_tx_blob") :
              \E k \in CallsOf(p, "prove") :
                  /\ k < i /\ calls[p][k].ret.ok
                  /\ calls[p][i].arg.identity = calls[p][k].arg.input.identity
                  /\ calls[p][i].arg.blobs = calls[p][k].arg.input.blobs
        /\ \A i \in CallsOf(p, "send_tx_proof") :
              \E k \in CallsOf(p, "prove") :
                  /\ k < i /\ calls[p][k].ret.ok
                  /\ calls[p][i].arg.proof
                        = EncodeReceipt([journal |-> calls[p][k].ret.val,
                                         seal |-> calls[p][k].arg])
                  /\ \A b \in 1..Len(calls[p][k].arg.input.blobs) :
                        calls[p][i].arg.contract_name
                            = calls[p][k].arg.input.blobs[b].contract_name

Wit_C16_BlobAndProofSubmitted ==
    \E p \in Procs :
        /\ cli[p].from # cli[p].to /\ cli[p].contract_name = "other_token"
        /\ CallsOf(p, "send_tx_blob") # {} /\ CallsOf(p, "send_tx_proof") # {}

\* C17: with several invocations interleaved, each one's ProofTransaction
\* names the hash returned to that same invocation's blob submission, which
\* came earlier, whatever hashes the other invocations were given.
Thm_C17_OwnHashUnderInterleaving ==
    \A p \in Procs :
        \A i \in CallsOf(p, "send_tx_proof") :
            /\ blob_tx_hash[p] = Some(calls[p][i].arg.blob_tx_hash)
            /\ \E j \in CallsOf(p, "send_tx_blob") :
                  j < i /\ calls[p][j].ret = Ok(calls[p][i].arg.blob_tx_hash)

Wit_C17_TwoProofsTwoHashes ==
    \E p, q \in Procs :
        /\ p # q
        /\ CallsOf(p, "send_tx_proof") # {} /\ CallsOf(q, "send_tx_proof") # {}
        /\ blob_tx_hash[p] = Some("h1") /\ blob_tx_hash[q] = Some("h2")

\* C18: a transfer queries the contract state once, before proving, and never
\* again; the initial_state of the contract input, and of the input handed to
\* the prover, is the state that query returned, even when the ledger's
\* committed state has changed since.
Thm_C18_StateReadOnceBeforeProving ==
    \A p \in Procs :
        /\ Cardinality(CallsOf(p, "get_contract")) <= 1
        /\ inputs[p] # None =>
              \E g \in CallsOf(p, "get_contract") :
                  /\ calls[p][g].ret.ok
                  /\ inputs[p][1].initial_state = FromDigest(calls[p][g].ret.val)
        /\ \A k \in CallsOf(p, "prove") :
              \E g \in CallsOf(p, "get_contract") :
                  /\ g < k /\ calls[p][g].ret.ok
                  /\ calls[p][k].arg.input.initial_state = FromDigest(calls[p][g].ret.val)

Wit_C18_LedgerChangedAfterQuery ==
    \E p \in Procs :
        /\ CallsOf(p, "send_tx_proof") # {}
        /\ \E g \in CallsOf(p, "get_contract"), k \in CallsOf(p, "prove") :
              /\ calls[p][g].ret.ok
              /\ ledger.state[cli[p].contract_name] # Some(calls[p][g].ret.val)
              /\ calls[p][k].arg.input.initial_state
                    # FromDigest(ledger.state[cli[p].contract_name][1])

\* C19: the contract input of a transfer holds exactly one blob, the blob
\* index 0 (the position of that blob), an empty tx_hash and an empty private
\* blob, and the prover is given that input.
SingleBlobInput(input) ==
    /\ Len(input.blobs) = 1
    /\ input.index = 0 /\ input.index < Len(input.blobs)
    /\ input.tx_hash = ""
    /\ input.private_blob = <<>>

Thm_C19_SingleBlobInput ==
    \A p \in Procs :
        /\ inputs[p] # None => SingleBlobInput(inputs[p][1])
        /\ \A k \in CallsOf(p, "prove") :
              calls[p][k].arg.input = inputs[p][1] /\ SingleBlobInput(calls[p][k].arg.input)

Wit_C19_InputProved ==
    \E p \in Procs :
        /\ inputs[p] # None /\ CallsOf(p, "prove") # {}
        /\ cli[p].amount = MaxAmount

\* C20: a register invocation sends the registration transaction and makes no
\* other call: at most one call at any time, exactly one once it has ended,
\* whether it succeeded or failed.
IsRegister(p) == pc[p] # "idle" /\ cli[p].command = "Register"

Thm_C20_RegisterSubmitsOnlyRegistration ==
    \A p \in Procs : IsRegister(p) =>
        /\ Len(calls[p]) <= 1
        /\ \A i \in 1..Len(calls[p]) : calls[p][i].op = "send_tx_register_contract"
        /\ Terminated(p) => Len(calls[p]) = 1
        /\ initial_state[p] = None /\ blobs[p] = <<>> /\ inputs[p] = None

Wit_C20_RegisterDoneAndFailed ==
    \E p, q \in Procs :
        /\ IsRegister(p) /\ IsRegister(q)
        /\ pc[p] = "done" /\ pc[q] = "panicked"
        /\ Len(calls[p]) = 1 /\ Len(calls[q]) = 1

====
